---------------------------- MODULE Spec2Model ----------------------------
(***************************************************************************)
(* Model of austin/aio.py: AsyncAustin.start, the coroutine that spawns    *)
(* the Austin sampler, reads the metadata header from its standard output, *)
(* forwards the samples, reads the footer, drains the standard error and   *)
(* waits for the exit status.                                              *)
(*                                                                         *)
(* Text is a sequence of one-character strings.  A line of a stream is the *)
(* text StreamReader.readline returns for it, its "\n" included; the empty *)
(* text is what readline returns at end of stream.  All the bytes are      *)
(* ASCII, so bytes.decode maps each byte to the character of the same      *)
(* code.                                                                   *)
(***************************************************************************)
EXTENDS Integers, Sequences, FiniteSets, TLC

\* The longest standard output (in lines) the child writes.
MaxLen == 4

-----------------------------------------------------------------------------
(* Text helpers: str.rstrip, str.startswith, str.partition                 *)

Whitespace == {" ", "\n", "\t", "\r"}

RECURSIVE rstrip(_)
rstrip(s) ==
    IF s # <<>> /\ s[Len(s)] \in Whitespace
    THEN rstrip(SubSeq(s, 1, Len(s) - 1))
    ELSE s

startswith(s, p) ==
    /\ Len(s) >= Len(p)
    /\ SubSeq(s, 1, Len(p)) = p

\* The indices at which sep occurs in s.
Occurrences(s, sep) ==
    {i \in 1..(Len(s) - Len(sep) + 1) : SubSeq(s, i, i + Len(sep) - 1) = sep}

\* s.partition(sep): the text before the first sep and the text after it;
\* with no sep in s, s itself and the empty text.
partition(s, sep) ==
    IF Occurrences(s, sep) = {}
    THEN [before |-> s, after |-> <<>>]
    ELSE LET i == CHOOSE j \in Occurrences(s, sep) :
                      \A k \in Occurrences(s, sep) : j <= k
         IN  [before |-> SubSeq(s, 1, i - 1),
              after  |-> SubSeq(s, i + Len(sep), Len(s))]

-----------------------------------------------------------------------------
(* Streams                                                                 *)

\* StreamReader.readline: the next line, or the empty text at end of stream.
readline(stream) == IF stream = <<>> THEN <<>> ELSE Head(stream)

\* The stream after one readline.
afterRead(stream) == IF stream = <<>> THEN <<>> ELSE Tail(stream)

\* As update, with a's value kept for a key both have (dict.setdefault).
updateKeepFirst(a, b) ==
    [k \in (DOMAIN a) \cup (DOMAIN b) |-> IF k \in DOMAIN a THEN a[k] ELSE b[k]]

\* dict.update: the entries of b added to a, b's value winning.
update(a, b) ==
    [k \in (DOMAIN a) \cup (DOMAIN b) |-> IF k \in DOMAIN b THEN b[k] ELSE a[k]]

EmptyMeta == [k \in {} |-> <<>>]

\* line 37: the line carries metadata.
IsMetaLine(line) == line # <<>> /\ startswith(line, <<"#", " ">>)

\* As _read_meta, with the line that ends the block left in the stream.
RECURSIVE _read_meta_unread(_, _)
_read_meta_unread(stream, meta) ==
    LET line == rstrip(readline(stream))
        kv   == partition(SubSeq(line, 3, Len(line)), <<":", " ">>)
    IN  IF ~IsMetaLine(line)
        THEN [meta |-> meta, rest |-> stream]
        ELSE _read_meta_unread(afterRead(stream),
                               update(meta, [k \in {kv.before} |-> kv.after]))

\* _read_meta: read lines while they carry metadata; the first line that
\* does not (or the end of the stream) is read and dropped.
RECURSIVE _read_meta(_, _)
_read_meta(stream, meta) ==
    LET line == rstrip(readline(stream))
        kv   == partition(SubSeq(line, 3, Len(line)), <<":", " ">>)
    IN  IF ~IsMetaLine(line)
        THEN [meta |-> meta, rest |-> afterRead(stream)]
        ELSE _read_meta(afterRead(stream),
                        update(meta, [k \in {kv.before} |-> kv.after]))


-----------------------------------------------------------------------------
(* Values                                                                  *)

\* Optional[str]: None, or a text.
None == [isNone |-> TRUE, text |-> <<>>]
Some(t) == [isNone |-> FALSE, text |-> t]

\* str(None) and str(text), as an f-string formats them.
StrOpt(o) == IF o.isNone THEN <<"N", "o", "n", "e">> ELSE o.text

Digit(d) == <<"0", "1", "2", "3", "4", "5", "6", "7", "8", "9">>[d + 1]

RECURSIVE StrNat(_)
StrNat(n) == IF n < 10 THEN <<Digit(n)>> ELSE StrNat(n \div 10) \o <<Digit(n % 10)>>

\* str(n) of an integer.
StrInt(n) == IF n < 0 THEN <<"-">> \o StrNat(-n) ELSE StrNat(n)

\* Exceptions: the class and the argument it was built with.
NoExc == [type |-> "none", arg |-> None]
AustinError(msg) == [type |-> "AustinError", arg |-> Some(msg)]
AustinTerminated(text) == [type |-> "AustinTerminated", arg |-> text]
\* What a callback of the host raises.
CallbackError(name) == [type |-> "CallbackError", arg |-> Some(<<name>>)]

NotFoundMsg == <<"Austin executable not found.">>
StdoutMissingMsg == <<"Standard output stream is unexpectedly missing">>
StderrMissingMsg == <<"Standard error stream is unexpectedly missing">>
NotStartedMsg == <<"Austin did not start properly">>

\* line 153: f"({rcode}) {stderr}"
FailedMsg(code, text) == <<"(">> \o StrInt(code) \o <<")", " ">> \o StrOpt(text)

\* As IsTerminated, with the signal recognised in its negative form alone.
IsTerminatedNegativeOnly(code) == code = -15

\* line 151: the exit codes of a child ended by the termination signal.
IsTerminated(code) == code \in {-15, 15}

\* As Classify, with the exit code left out of the error's text.
ClassifyCodeDropped(code, text, exc) ==
    IF code # 0
    THEN IF IsTerminated(code)
         THEN [kind |-> "raised", exc |-> AustinTerminated(text)]
         ELSE [kind |-> "raised", exc |-> AustinError(StrOpt(text))]
    ELSE IF exc # NoExc
         THEN [kind |-> "raised", exc |-> exc]
         ELSE [kind |-> "returned", exc |-> NoExc]

\* As Classify, with the pending exception dropped on a zero exit code (a
\* return inside the finally block).
ClassifyPendingDropped(code, text, exc) ==
    IF code # 0
    THEN IF IsTerminated(code)
         THEN [kind |-> "raised", exc |-> AustinTerminated(text)]
         ELSE [kind |-> "raised", exc |-> AustinError(FailedMsg(code, text))]
    ELSE [kind |-> "returned", exc |-> NoExc]

\* lines 150-153 and the end of the finally block: what start() does once the
\* exit code is known, exc being the exception the try block left pending.
Classify(code, text, exc) ==
    IF code # 0
    THEN IF IsTerminated(code)
         THEN [kind |-> "raised", exc |-> AustinTerminated(text)]
         ELSE [kind |-> "raised", exc |-> AustinError(FailedMsg(code, text))]
    ELSE IF exc # NoExc
         THEN [kind |-> "raised", exc |-> exc]
         ELSE [kind |-> "returned", exc |-> NoExc]

\* line 146: the value handed to the termination callback, given the
\* accumulated metadata and the mapping _read_footer returned.
TerminateArg(meta, footer) == footer

-----------------------------------------------------------------------------
(* Inputs                                                                  *)

Line(text) == text \o <<"\n">>

\* The lines the child writes to its standard output.
Lines ==
    { Line(<<"#", " ", "a", ":", " ", "1">>),
      Line(<<"#", " ", "a", ":", " ", "2">>),
      Line(<<"#", " ", "b", ":", " ", "1">>),
      Line(<<>>),
      Line(<<"s">>),
      Line(<<"t">>) }

Streams == UNION {[1..n -> Lines] : n \in 0..MaxLen}

\* What the child has written to its standard error when it is read.
Diagnostics == {<<>>, Line(<<"e">>)}

\* The exit codes of the child.
ExitCodes == {-15, -9, 0, 1, 15}

-----------------------------------------------------------------------------
(* State                                                                   *)

VARIABLES
    pc,         \* where start() is
    spawned,    \* self.proc: the child process was created
    reaped,     \* proc.wait() has returned
    written,    \* all the lines the child writes to its standard output
    stdout,     \* proc.stdout: the lines not read yet
    _running,   \* self._running
    _meta,      \* self._meta
    pending,    \* the exception the try block is leaving with
    sink,       \* the data submit_sample was called with, in order
    termArg,    \* what the termination callback was called with
    stderr,     \* the local stderr of start()
    rcode,      \* the local rcode of start()
    outcome,    \* how start() ended
    log         \* the events of the run, in order

vars == <<pc, spawned, reaped, written, stdout, _running, _meta, pending,
          sink, termArg, stderr, rcode, outcome, log>>

Count(seq, e) == Cardinality({i \in DOMAIN seq : seq[i] = e})

Init ==
    /\ pc = "start"
    /\ spawned = FALSE
    /\ reaped = FALSE
    /\ written = <<>>
    /\ stdout = <<>>
    /\ _running = FALSE
    /\ _meta = EmptyMeta
    /\ pending = NoExc
    /\ sink = <<>>
    /\ termArg = EmptyMeta
    /\ stderr = None
    /\ rcode = 0
    /\ outcome = [kind |-> "none", exc |-> NoExc]
    /\ log = <<>>

-----------------------------------------------------------------------------
(* start()                                                                 *)

\* lines 103-114: the executable is not there.
LaunchNotFound ==
    /\ pc = "start"
    /\ pc' = "done"
    /\ outcome' = [kind |-> "raised", exc |-> AustinError(NotFoundMsg)]
    /\ UNCHANGED <<spawned, reaped, written, stdout, _running, _meta, pending,
                   sink, termArg, stderr, rcode, log>>

\* As LaunchStreamMissing, with the running flag set before the streams are
\* looked at.
LaunchStreamMissingRunning ==
    /\ pc = "start"
    /\ \E hasStdout \in BOOLEAN :
          outcome' = [kind |-> "raised",
                      exc  |-> IF ~hasStdout
                               THEN AustinError(StdoutMissingMsg)
                               ELSE AustinError(StderrMissingMsg)]
    /\ spawned' = TRUE
    /\ _running' = TRUE
    /\ pc' = "done"
    /\ log' = Append(log, "spawn")
    /\ UNCHANGED <<reaped, written, stdout, _meta, pending, sink, termArg,
                   stderr, rcode>>

\* lines 106-119: the child is created without one of its output streams.
LaunchStreamMissing ==
    /\ pc = "start"
    /\ \E hasStdout \in BOOLEAN :
          outcome' = [kind |-> "raised",
                      exc  |-> IF ~hasStdout
                               THEN AustinError(StdoutMissingMsg)
                               ELSE AustinError(StderrMissingMsg)]
    /\ spawned' = TRUE
    /\ pc' = "done"
    /\ log' = Append(log, "spawn")
    /\ UNCHANGED <<reaped, written, stdout, _running, _meta, pending, sink,
                   termArg, stderr, rcode>>

\* lines 106-121: the child is created with both streams.
Launch ==
    /\ pc = "start"
    /\ spawned' = TRUE
    /\ \E out \in Streams : written' = out /\ stdout' = out
    /\ _running' = TRUE
    /\ pc' = "header"
    /\ log' = Append(log, "spawn")
    /\ UNCHANGED <<reaped, _meta, pending, sink, termArg, stderr, rcode,
                   outcome>>

\* Another task clears the running flag while start() is suspended in a
\* read of the standard output.
Stop ==
    /\ pc \in {"header", "reading"}
    /\ _running
    /\ _running' = FALSE
    /\ log' = Append(log, "stop")
    /\ UNCHANGED <<pc, spawned, reaped, written, stdout, _meta, pending, sink,
                   termArg, stderr, rcode, outcome>>

\* lines 124-125 and 88-91: the header.
ReadHeader ==
    /\ pc = "header"
    /\ LET r == _read_meta(stdout, EmptyMeta)
       IN  /\ stdout' = r.rest
           /\ _meta' = update(_meta, r.meta)
           /\ IF r.meta = EmptyMeta
              THEN /\ pending' = AustinError(NotStartedMsg)
                   /\ pc' = "finally"
              ELSE /\ pending' = pending
                   /\ pc' = "ready"
    /\ log' = Append(log, "header")
    /\ UNCHANGED <<spawned, reaped, written, _running, sink, termArg, stderr,
                   rcode, outcome>>

\* As Ready, with the callback not called.
ReadySkipped ==
    /\ pc = "ready"
    /\ pc' = "loop"
    /\ UNCHANGED <<spawned, reaped, written, stdout, _running, _meta, pending,
                   sink, termArg, stderr, rcode, outcome, log>>

\* lines 128-132: the ready callback, which returns or raises.
Ready ==
    /\ pc = "ready"
    /\ log' = Append(log, "ready")
    /\ \E raises \in BOOLEAN :
          IF raises
          THEN pending' = CallbackError("on_ready") /\ pc' = "finally"
          ELSE pending' = pending /\ pc' = "loop"
    /\ UNCHANGED <<spawned, reaped, written, stdout, _running, _meta, sink,
                   termArg, stderr, rcode, outcome>>

\* As LoopTest, with the running flag not looked at (while True).
LoopTestAlways ==
    /\ pc = "loop"
    /\ pc' = "reading"
    /\ log' = Append(log, "read")
    /\ UNCHANGED <<spawned, reaped, written, stdout, _running, _meta, pending,
                   sink, termArg, stderr, rcode, outcome>>

\* line 135: the loop's test, and the start of the read of line 136.
LoopTest ==
    /\ pc = "loop"
    /\ IF _running
       THEN pc' = "reading" /\ log' = Append(log, "read")
       ELSE pc' = "finally" /\ log' = log
    /\ UNCHANGED <<spawned, reaped, written, stdout, _running, _meta, pending,
                   sink, termArg, stderr, rcode, outcome>>

\* As ReadSample, with an empty line skipped (continue) and not ending the
\* loop.
ReadSampleNoBreak ==
    /\ pc = "reading"
    /\ stdout' = afterRead(stdout)
    /\ LET data == rstrip(readline(stdout))
       IN  IF data = <<>>
           THEN /\ pc' = IF stdout = <<>> THEN "finally" ELSE "loop"
                /\ UNCHANGED <<sink, pending, log>>
           ELSE /\ sink' = Append(sink, data)
                /\ log' = Append(log, "sample")
                /\ \E raises \in BOOLEAN :
                      IF raises
                      THEN /\ pending' = CallbackError("on_sample_received")
                           /\ pc' = "finally"
                      ELSE /\ pending' = pending
                           /\ pc' = "loop"
    /\ UNCHANGED <<spawned, reaped, written, _running, _meta, termArg, stderr,
                   rcode, outcome>>

\* As ReadSample, with the end of the stream raised as an error.
ReadSampleEofRaises ==
    /\ pc = "reading"
    /\ stdout' = afterRead(stdout)
    /\ LET data == rstrip(readline(stdout))
       IN  IF data = <<>>
           THEN /\ pc' = "finally"
                /\ pending' = IF stdout = <<>>
                              THEN [type |-> "EOFError", arg |-> None]
                              ELSE pending
                /\ UNCHANGED <<sink, log>>
           ELSE /\ sink' = Append(sink, data)
                /\ log' = Append(log, "sample")
                /\ \E raises \in BOOLEAN :
                      IF raises
                      THEN /\ pending' = CallbackError("on_sample_received")
                           /\ pc' = "finally"
                      ELSE /\ pending' = pending
                           /\ pc' = "loop"
    /\ UNCHANGED <<spawned, reaped, written, _running, _meta, termArg, stderr,
                   rcode, outcome>>

\* lines 136-140: the read ends; an empty line leaves the loop, any other
\* goes to submit_sample, which returns or raises.
ReadSample ==
    /\ pc = "reading"
    /\ stdout' = afterRead(stdout)
    /\ LET data == rstrip(readline(stdout))
       IN  IF data = <<>>
           THEN /\ pc' = "finally"
                /\ UNCHANGED <<sink, pending, log>>
           ELSE /\ sink' = Append(sink, data)
                /\ log' = Append(log, "sample")
                /\ \E raises \in BOOLEAN :
                      IF raises
                      THEN /\ pending' = CallbackError("on_sample_received")
                           /\ pc' = "finally"
                      ELSE /\ pending' = pending
                           /\ pc' = "loop"
    /\ UNCHANGED <<spawned, reaped, written, _running, _meta, termArg, stderr,
                   rcode, outcome>>

\* As Finally, with the termination callback called only when the try block
\* ended without an exception (an else clause in place of finally).
FinallyCallbackOnSuccess ==
    /\ pc = "finally"
    /\ _running' = FALSE
    /\ LET r == _read_meta(stdout, EmptyMeta)
       IN  /\ stdout' = r.rest
           /\ _meta' = update(_meta, r.meta)
           /\ termArg' = IF pending = NoExc
                         THEN TerminateArg(update(_meta, r.meta), r.meta)
                         ELSE termArg
    /\ log' = IF pending = NoExc
              THEN log \o <<"footer", "terminate">>
              ELSE Append(log, "footer")
    /\ \E raises \in BOOLEAN :
          IF raises /\ pending = NoExc
          THEN /\ outcome' = [kind |-> "raised",
                              exc  |-> CallbackError("on_terminate")]
               /\ pc' = "done"
          ELSE /\ outcome' = outcome
               /\ pc' = "stderr"
    /\ UNCHANGED <<spawned, reaped, written, pending, sink, stderr, rcode>>

\* lines 142-146 and 93-96: the footer and the termination callback, which
\* returns or raises.
Finally ==
    /\ pc = "finally"
    /\ _running' = FALSE
    /\ LET r == _read_meta(stdout, EmptyMeta)
       IN  /\ stdout' = r.rest
           /\ _meta' = update(_meta, r.meta)
           /\ termArg' = TerminateArg(update(_meta, r.meta), r.meta)
    /\ log' = log \o <<"footer", "terminate">>
    /\ \E raises \in BOOLEAN :
          IF raises
          THEN /\ outcome' = [kind |-> "raised",
                              exc  |-> CallbackError("on_terminate")]
               /\ pc' = "done"
          ELSE /\ outcome' = outcome
               /\ pc' = "stderr"
    /\ UNCHANGED <<spawned, reaped, written, pending, sink, stderr, rcode>>

\* As ReadStderr, with the timeout not caught.
ReadStderrTimeoutRaises ==
    /\ pc = "stderr"
    /\ \/ /\ \E data \in Diagnostics : stderr' = Some(rstrip(data))
          /\ pc' = "wait"
          /\ outcome' = outcome
       \/ /\ stderr' = None
          /\ pc' = "done"
          /\ outcome' = [kind |-> "raised",
                         exc  |-> [type |-> "TimeoutError", arg |-> None]]
    /\ log' = Append(log, "stderr")
    /\ UNCHANGED <<spawned, reaped, written, stdout, _running, _meta, pending,
                   sink, termArg, rcode>>

\* lines 148 and 80-86: the read of the standard error ends with what the
\* child wrote, or times out.
ReadStderr ==
    /\ pc = "stderr"
    /\ \/ \E data \in Diagnostics : stderr' = Some(rstrip(data))
       \/ stderr' = None
    /\ log' = Append(log, "stderr")
    /\ pc' = "wait"
    /\ UNCHANGED <<spawned, reaped, written, stdout, _running, _meta, pending,
                   sink, termArg, rcode, outcome>>

\* lines 149-153: the exit code.
Wait ==
    /\ pc = "wait"
    /\ \E code \in ExitCodes :
          /\ rcode' = code
          /\ outcome' = Classify(code, stderr, pending)
    /\ reaped' = TRUE
    /\ log' = Append(log, "wait")
    /\ pc' = "done"
    /\ UNCHANGED <<spawned, written, stdout, _running, _meta, pending, sink,
                   termArg, stderr>>

Next ==
    \/ LaunchNotFound
    \/ LaunchStreamMissing
    \/ Launch
    \/ Stop
    \/ ReadHeader
    \/ Ready
    \/ LoopTest
    \/ ReadSample
    \/ Finally
    \/ ReadStderr
    \/ Wait

Spec == Init /\ [][Next]_vars

-----------------------------------------------------------------------------
(* Properties                                                              *)

Done == pc = "done"

Has(e) == \E i \in DOMAIN log : log[i] = e

\* The child was created without one of its output streams.
StreamMissing ==
    outcome.exc \in {AustinError(StdoutMissingMsg), AustinError(StderrMissingMsg)}

\* The launch succeeded: start() went past line 121.
Launched == spawned /\ ~StreamMissing

\* The header was read and was empty.
HeaderEmpty == pending = AustinError(NotStartedMsg)

\* The header was read and was not empty.
HeaderFull == Has("header") /\ ~HeaderEmpty

\* C1: in every run whose launch succeeded the termination callback is
\* called exactly once by the time start() ends, however it ends, and never
\* more than once.
C1_TerminateOnce ==
    /\ Count(log, "terminate") <= 1
    /\ (Done /\ Launched) => Count(log, "terminate") = 1

\* A run in which submit_sample raised and the child ended with a non-zero
\* code has ended with the callback called.
C1_Witness ==
    /\ Done
    /\ pending = CallbackError("on_sample_received")
    /\ reaped
    /\ rcode = 1
    /\ Count(log, "terminate") = 1

\* C2: the termination callback is called with the accumulated metadata,
\* the header's entries merged with the footer's.
C2_TerminateArgAccumulated ==
    Has("terminate") => termArg = _meta

\* C3: when the header is empty, whatever the exit code, start() raises the
\* "did not start properly" error and the ready callback is never called.
C3_EmptyHeaderFails ==
    (Done /\ reaped /\ HeaderEmpty) =>
        /\ outcome = [kind |-> "raised", exc |-> AustinError(NotStartedMsg)]
        /\ ~Has("ready")

\* C4 as stated: whenever the exit code is 0, start() returns normally, the
\* termination callback having been called once.
C4_ZeroReturns ==
    (Done /\ reaped /\ rcode = 0) =>
        /\ outcome.kind = "returned"
        /\ Count(log, "terminate") = 1

\* C4 amended: whenever the exit code is 0 the cleanup raises nothing of its
\* own: start() returns normally when the try block ended without an
\* exception and raises that exception otherwise, the termination callback
\* having been called once.
C4_ZeroAddsNoError ==
    (Done /\ reaped /\ rcode = 0) =>
        /\ Count(log, "terminate") = 1
        /\ pending = NoExc => outcome = [kind |-> "returned", exc |-> NoExc]
        /\ pending # NoExc => outcome = [kind |-> "raised", exc |-> pending]

\* A run with an empty header and the exit code 0 has raised the error of
\* the empty header.
C4_Witness ==
    /\ Done
    /\ reaped
    /\ rcode = 0
    /\ HeaderEmpty
    /\ outcome = [kind |-> "raised", exc |-> AustinError(NotStartedMsg)]
    /\ Count(log, "terminate") = 1

\* C5: start() raises AustinTerminated exactly when the exit code is -15 or
\* 15, and the error then carries the text read from the standard error.
C5_TerminatedIffSignal ==
    Done =>
        /\ outcome.exc.type = "AustinTerminated" <=> (reaped /\ rcode \in {-15, 15})
        /\ (reaped /\ rcode \in {-15, 15}) =>
               outcome = [kind |-> "raised", exc |-> AustinTerminated(stderr)]

\* The exit code 15 has given AustinTerminated with the text "e".
C5_Witness ==
    /\ Done
    /\ rcode = 15
    /\ outcome.exc = AustinTerminated(Some(<<"e">>))

\* C6: an exit code that is neither 0 nor the termination signal makes
\* start() raise AustinError with the text "(code) stderr".
C6_FailedCarriesCode ==
    (Done /\ reaped /\ rcode \notin {-15, 0, 15}) =>
        /\ outcome.kind = "raised"
        /\ outcome.exc.type = "AustinError"
        /\ outcome.exc.arg =
              Some(<<"(">> \o StrInt(rcode) \o <<")", " ">> \o StrOpt(stderr))
        /\ (rcode = 1 /\ stderr = Some(<<"e">>)) =>
               outcome.exc.arg.text = <<"(", "1", ")", " ", "e">>
        /\ (rcode = -9 /\ stderr = None) =>
               outcome.exc.arg.text = <<"(", "-", "9", ")", " ", "N", "o", "n", "e">>

\* The exit code 1 with "e" on the standard error has given "(1) e".
C6_Witness ==
    /\ Done
    /\ rcode = 1
    /\ outcome.exc = AustinError(<<"(", "1", ")", " ", "e">>)

\* C7: on every way out of a launched run the footer read, the termination
\* callback, the read of the standard error and the wait have all run
\* before start() ends.
C7_CleanupAlwaysRuns ==
    (Done /\ Launched) =>
        Has("footer") /\ Has("terminate") /\ Has("stderr") /\ Has("wait")

\* C8: when start() ends, a child that was created has been waited for.
C8_ChildReaped ==
    (Done /\ spawned) => reaped

\* C9 as stated: no sample is forwarded before a non-empty header was read,
\* nor after a stop was requested or the stream ended.
C9_NoSampleOutsideRunning ==
    \A j \in DOMAIN log :
        log[j] = "sample" =>
            /\ HeaderFull
            /\ \A i \in 1..(j - 1) : log[i] \notin {"stop", "footer"}

\* C9 amended: no sample is forwarded before a non-empty header was read and
\* the ready callback returned, nor after the loop was left (by an empty read
\* or by the loop test seeing the flag cleared); every forwarded sample is
\* the line of a read started while the flag was set, so that a stop
\* requested during a read lets the line of that read through and nothing
\* after it.
C9_SampleOnlyFromLoop ==
    /\ \A j \in DOMAIN log :
          log[j] = "sample" =>
              /\ HeaderFull
              /\ \E i \in 1..(j - 1) : log[i] = "ready"
              /\ \A i \in 1..(j - 1) : log[i] # "footer"
              /\ \E r \in 1..(j - 1) :
                    /\ log[r] = "read"
                    /\ \A i \in 1..(r - 1) : log[i] # "stop"
                    /\ \A i \in (r + 1)..(j - 1) : log[i] = "stop"
    /\ \A r \in DOMAIN log :
          log[r] = "read" => \A i \in 1..(r - 1) : log[i] # "stop"

\* A sample has been forwarded after a stop was requested.
C9_Witness ==
    \E i, j \in DOMAIN log : i < j /\ log[i] = "stop" /\ log[j] = "sample"

\* C10: the ready callback is called at most once in any run and exactly
\* once in a run whose header is not empty, after the header was read and
\* before any sample is forwarded.
C10_ReadyOnce ==
    /\ Count(log, "ready") <= 1
    /\ (Done /\ Launched /\ HeaderFull) => Count(log, "ready") = 1
    /\ \A i \in DOMAIN log :
          log[i] = "ready" =>
              /\ \E h \in 1..(i - 1) : log[h] = "header"
              /\ \A j \in 1..(i - 1) : log[j] # "sample"
    /\ sink # <<>> => Has("ready")

\* A run has forwarded two samples after one call of the ready callback.
C10_Witness ==
    /\ Done
    /\ Count(log, "ready") = 1
    /\ Len(sink) = 2

-----------------------------------------------------------------------------
(* Properties of the stream, the shutdown order and the launch             *)

\* start() has left the sample loop, or never entered it.
AfterLoop == pc \in {"finally", "stderr", "wait", "done"}

IsPrefix(a, b) == Len(a) <= Len(b) /\ a = SubSeq(b, 1, Len(a))

\* The number of metadata lines the stream begins with.
RECURSIVE LeadingMeta(_)
LeadingMeta(stream) ==
    IF stream # <<>> /\ IsMetaLine(rstrip(Head(stream)))
    THEN 1 + LeadingMeta(Tail(stream))
    ELSE 0

\* The key of a metadata line.
KeyOf(line) ==
    LET text == rstrip(line)
    IN  partition(SubSeq(text, 3, Len(text)), <<":", " ">>).before

\* The keys of the header block of what the child wrote.
HeaderKeys == {KeyOf(written[i]) : i \in 1..LeadingMeta(written)}

\* What the child wrote after the header block and the line that ends it.
AfterHeader == SubSeq(written, LeadingMeta(written) + 2, Len(written))

\* The header block as a mapping.
HeaderMeta == _read_meta(written, EmptyMeta).meta

\* The lines up to the first empty one, each without its line end.
RECURSIVE TakeSamples(_)
TakeSamples(lines) ==
    IF lines = <<>> \/ rstrip(Head(lines)) = <<>>
    THEN <<>>
    ELSE <<rstrip(Head(lines))>> \o TakeSamples(Tail(lines))

\* The samples of the stream: the lines after the header, to the first empty
\* line or the end of the stream.
Expected == TakeSamples(AfterHeader)

NoBlank(lines) == \A i \in DOMAIN lines : rstrip(lines[i]) # <<>>

\* start() has not yet read the standard error.  The stream, the sink and
\* the metadata are the same in every later state of the run, so a property
\* of them is stated for these states.
BeforeStderr == pc # "wait" /\ ~reaped

\* The state right after the header was read.
JustReadHeader == Has("header") /\ ~Has("ready") /\ ~Has("footer")

\* start() ended with the outcome the exit code decides: a normal return,
\* AustinTerminated, or the AustinError "(code) stderr".
Classified ==
    \/ outcome.kind = "returned"
    \/ outcome.exc.type = "AustinTerminated"
    \/ /\ outcome.exc.type = "AustinError"
       /\ outcome.exc.arg.text # <<>>
       /\ outcome.exc.arg.text[1] = "("

\* C11: the footer read and then the termination callback come before the
\* wait for the exit status, and the wait comes before a normal return, an
\* AustinTerminated or a "(code) stderr" AustinError, so that the callback
\* has been called whenever start() ends with one of these.
C11_ShutdownOrder ==
    /\ \A w \in DOMAIN log :
          log[w] = "wait" =>
              \E f, t \in 1..(w - 1) :
                  f < t /\ log[f] = "footer" /\ log[t] = "terminate"
    /\ reaped <=> Has("wait")
    /\ Classified => (Done /\ reaped /\ Has("terminate"))

\* A run with an empty header has ended with AustinTerminated after the
\* footer, the callback, the read of the standard error and the wait.
C11_Witness ==
    /\ Done
    /\ outcome.exc.type = "AustinTerminated"
    /\ HeaderEmpty
    /\ Len(log) >= 4
    /\ SubSeq(log, Len(log) - 3, Len(log)) =
          <<"footer", "terminate", "stderr", "wait">>

\* C12: the sink receives the stream's samples once each and in order: what
\* was forwarded is always a prefix of them, nothing is forwarded when the
\* header is empty, and all of them have been forwarded once the loop is
\* left with no stop requested and no callback having raised.
C12_SinkIsSamples ==
    BeforeStderr =>
        LET samples == Expected
        IN  /\ IsPrefix(sink, samples)
            /\ Count(log, "sample") = Len(sink)
            /\ ~HeaderFull => sink = <<>>
            /\ (AfterLoop /\ HeaderFull /\ pending = NoExc /\ ~Has("stop")) =>
                  sink = samples

\* The header was ended by the line t, which was not forwarded; the samples
\* s and t after it were forwarded in that order and the loop was left.
C12_Witness ==
    /\ AfterLoop
    /\ ~Has("stop")
    /\ Len(written) = 4
    /\ written[2] = Line(<<"t">>)
    /\ sink = <<<<"s">>, <<"t">>>>

\* C13: after a stop requested during a read of the sample loop no other
\* read is started, and the footer read, the termination callback, the read
\* of the standard error and the wait have all run when start() ends.
C13_StopThenCleanup ==
    (Done /\ \E i \in DOMAIN log : i > 1 /\ log[i] = "stop" /\ log[i - 1] = "read") =>
        /\ \A i, j \in DOMAIN log : (log[i] = "stop" /\ i < j) => log[j] # "read"
        /\ Has("footer") /\ Has("terminate") /\ Has("stderr") /\ Has("wait")

C15_ExactlyNEntries ==
    JustReadHeader =>
        /\ Cardinality(DOMAIN _meta) = LeadingMeta(written)
        /\ stdout = AfterHeader

\* C15 amended: a block of N metadata lines gives a mapping with one entry
\* for each distinct key of the block (N entries when the keys differ), and
\* the reader consumes the block and one line more, so that the next read
\* starts after the line that ended the block.
C15_OneEntryPerKey ==
    JustReadHeader =>
        /\ DOMAIN _meta = HeaderKeys
        /\ Cardinality(DOMAIN _meta) <= LeadingMeta(written)
        /\ (Cardinality(HeaderKeys) = LeadingMeta(written)) =>
               Cardinality(DOMAIN _meta) = LeadingMeta(written)
        /\ stdout = AfterHeader
        /\ Len(written) > LeadingMeta(written) =>
               Len(stdout) = Len(written) - LeadingMeta(written) - 1

\* A block of two lines with different keys was read: two entries, the line
\* after the block consumed, the one after it still to be read.
C15_Witness ==
    /\ JustReadHeader
    /\ LeadingMeta(written) = 2
    /\ Cardinality(DOMAIN _meta) = 2
    /\ Len(written) = 4
    /\ stdout = <<written[4]>>

\* C16: once the footer is merged, a key of the footer has the footer's
\* value and a key of the header alone has the header's.
C16_FooterWins ==
    (BeforeStderr /\ Has("footer")) =>
        LET header == HeaderMeta
            footer == termArg
        IN  /\ DOMAIN _meta = (DOMAIN header) \cup (DOMAIN footer)
            /\ \A k \in DOMAIN footer : _meta[k] = footer[k]
            /\ \A k \in (DOMAIN header) \ (DOMAIN footer) :
                  _meta[k] = header[k]

\* The header gave a the value 1 and b the value 1, the footer gave a the
\* value 2: a is 2 and b is 1.
C16_Witness ==
    /\ Has("footer")
    /\ DOMAIN HeaderMeta = {<<"a">>, <<"b">>}
    /\ HeaderMeta[<<"a">>] = <<"1">>
    /\ DOMAIN termArg = {<<"a">>}
    /\ termArg[<<"a">>] = <<"2">>
    /\ _meta[<<"a">>] = <<"2">>
    /\ _meta[<<"b">>] = <<"1">>

\* C17: when the stream ends after the header with no empty line, the loop
\* is left with no exception of its own; with no stop requested every line
\* was forwarded, and the footer read finds the end of the stream, gives the
\* empty mapping and is followed by the termination callback.
C17_ClosureEndsLoop ==
    ( /\ BeforeStderr
      /\ AfterLoop
      /\ HeaderFull
      /\ NoBlank(AfterHeader)
      /\ pending \notin {CallbackError("on_ready"),
                         CallbackError("on_sample_received")} ) =>
        /\ pending = NoExc
        /\ ~Has("stop") =>
              LET lines == AfterHeader
              IN  /\ sink = [i \in DOMAIN lines |-> rstrip(lines[i])]
                  /\ stdout = <<>>
                  /\ Has("footer") =>
                        (termArg = EmptyMeta /\ Has("terminate"))

\* A stream of a header, the line ending it and two samples was read to its
\* end and start() returned.
C17_Witness ==
    /\ Done
    /\ ~Has("stop")
    /\ Len(AfterHeader) = 2
    /\ NoBlank(AfterHeader)
    /\ Len(sink) = 2
    /\ termArg = EmptyMeta
    /\ outcome.kind = "returned"

\* C18: the running flag is set only once a non-empty header has been read.
C18_RunningOnlyAfterHeader ==
    _running => HeaderFull

\* C19: a launch that fails raises the launch error with no callback called,
\* nothing read, and the running flag and the metadata as they were.
C19_LaunchFailureFrame ==
    (Done /\ ~Launched) =>
        /\ outcome.kind = "raised"
        /\ outcome.exc \in {AustinError(NotFoundMsg),
                            AustinError(StdoutMissingMsg),
                            AustinError(StderrMissingMsg)}
        /\ log \in {<<>>, <<"spawn">>}
        /\ sink = <<>>
        /\ stdout = written
        /\ stderr = None
        /\ _running = FALSE
        /\ _meta = EmptyMeta

\* The child was created without its standard output and start() raised.
C19_Witness ==
    /\ Done
    /\ spawned
    /\ outcome.exc = AustinError(StdoutMissingMsg)

\* C20: after a stop request at most one sample is forwarded, the line of
\* the read that was pending when the flag was cleared, and no read is
\* started after the request.
C20_AtMostOneAfterStop ==
    \A i \in DOMAIN log :
        log[i] = "stop" =>
            /\ Cardinality({j \in DOMAIN log : j > i /\ log[j] = "sample"}) <= 1
            /\ \A j \in DOMAIN log :
                  (j > i /\ log[j] = "sample") =>
                      (j = i + 1 /\ i > 1 /\ log[i - 1] = "read")
            /\ \A j \in DOMAIN log : j > i => log[j] # "read"

\* A stop was requested during the read of the first of two samples: the
\* first was forwarded, the second was not.
C20_Witness ==
    /\ Done
    /\ \E i \in DOMAIN log :
          i < Len(log) /\ log[i] = "stop" /\ log[i + 1] = "sample"
    /\ Len(sink) = 1
    /\ Len(Expected) = 2

=============================================================================
